---------------------------- MODULE Spec2Model ----------------------------
(***************************************************************************)
(* A model of src/textproc.rs: the fenced-code-block scanner TextProcState *)
(* (new, step, finalize) and the interface of convert_diagram.             *)
(*                                                                         *)
(* A Rust string is a sequence of one-character strings.  Option<T> is a   *)
(* sequence of length 0 (None) or 1 (Some).  Indices into a fragment are   *)
(* 0-based byte offsets as in the code; every character of the model's     *)
(* alphabet is one byte.                                                   *)
(***************************************************************************)
EXTENDS Integers, Sequences, FiniteSets, TLC

(***************************************************************************)
(* Bounds of the model.                                                    *)
(***************************************************************************)
\* Lines of a multi-line chunk drawn by the free-running caller.
MaxChunkLines == 2
\* The free-running caller stops feeding once a capture holds more than this
\* many characters (String is unbounded in the code).
MaxContent == 3
\* Distinct source locations (proc_macro2::Span values) the free-running
\* caller passes, one after the other and then again from the first.
MaxSpan == 2
\* Content lines of a well-formed block fed by the scripted caller.
MaxBlockLines == 2

(***************************************************************************)
(* Option and string helpers.                                              *)
(***************************************************************************)
None == <<>>
Some(v) == <<v>>
IsSome(o) == o # <<>>
Unwrap(o) == o[1]

LF == "\n"
SP == " "
TAB == "\t"
\* U+0060, the grave accent (backtick): SANY cannot read it inside a literal.
BT == "U+0060"
TL == "~"

\* White_Space as matched by the regex class \s, restricted to the characters
\* a TLA+ string literal can write.
WhiteSpace == {" ", "\t", "\n", "\r", "\f"}

MinOf(S) == CHOOSE m \in S : \A n \in S : m <= n
MaxOf(S) == CHOOSE m \in S : \A n \in S : m >= n

\* s[from..] with a 0-based offset.
From(s, from) == SubSeq(s, from + 1, Len(s))
\* s[from..to] with 0-based offsets, to exclusive.
Slice(s, from, to) == SubSeq(s, from + 1, to)

\* The number of leading characters of s that lie in cs.
LeadingRun(s, cs) ==
    LET other == {k \in 1..Len(s) : s[k] \notin cs}
    IN  IF other = {} THEN Len(s) ELSE MinOf(other) - 1

\* The number of trailing characters of s that lie in cs.
TrailingRun(s, cs) ==
    LET other == {k \in 1..Len(s) : s[k] \notin cs}
    IN  IF other = {} THEN Len(s) ELSE Len(s) - MaxOf(other)

StartsWith(s, p) == Len(s) >= Len(p) /\ SubSeq(s, 1, Len(p)) = p

RECURSIVE Concat(_)
Concat(ss) == IF ss = <<>> THEN <<>> ELSE Head(ss) \o Concat(Tail(ss))

Rep(c, n) == [k \in 1..n |-> c]

(***************************************************************************)
(* str::find(LF): the offset of the first line feed, or None.              *)
(***************************************************************************)
\* FindBreak one too far: the offset after the line feed.
FindBreakPast(s) ==
    LET at == {k \in 1..Len(s) : s[k] = LF}
    IN  IF at = {} THEN None ELSE Some(MinOf(at))

FindBreak(s) ==
    LET at == {k \in 1..Len(s) : s[k] = LF}
    IN  IF at = {} THEN None ELSE Some(MinOf(at) - 1)

(***************************************************************************)
(* FENCE_RE = ^( {0,3}(?:BT{3,}|~{3,}))\s*(.*?)\s*$ applied to one line (a *)
(* line holds no line feed).  Group 1 is at most three leading spaces and  *)
(* the greedy, hence maximal, run of one fence character; everything after *)
(* it is matched by \s*(.*?)\s*$, so the match never fails past group 1    *)
(* and the lazy group 2 is the rest with the white space at both ends      *)
(* removed.  A fourth leading space, or any other character before the     *)
(* run, leaves ^ {0,3} with no fence character to follow: no match.        *)
(***************************************************************************)
FenceIndent(line) == LeadingRun(line, {SP})

FenceRun(line) ==
    LET rest == From(line, FenceIndent(line))
    IN  IF rest = <<>> \/ rest[1] \notin {BT, TL} THEN 0
        ELSE LeadingRun(rest, {rest[1]})

\* FenceMatches with the indent unbounded, as with " *" for " {0,3}".
FenceMatchesAnyIndent(line) == FenceRun(line) >= 3

\* FenceMatches with a run of two accepted, as with {2,} for {3,}.
FenceMatchesTwo(line) == FenceIndent(line) <= 3 /\ FenceRun(line) >= 2

FenceMatches(line) == FenceIndent(line) <= 3 /\ FenceRun(line) >= 3

\* mat.get(1)
FenceGroup(line) == Slice(line, 0, FenceIndent(line) + FenceRun(line))

\* LanguageGroup without the \s* on either side: the rest of the line as it is.
LanguageGroupUntrimmed(line) == From(line, FenceIndent(line) + FenceRun(line))

\* mat.get(2)
LanguageGroup(line) ==
    LET rest == From(line, FenceIndent(line) + FenceRun(line))
        lead == LeadingRun(rest, WhiteSpace)
        body == From(rest, lead)
    IN  Slice(body, 0, Len(body) - TrailingRun(body, WhiteSpace))

SVGBOB == <<"s", "v", "g", "b", "o", "b">>
COMMA == ","

\* language == "svgbob" || language.starts_with("svgbob,")
\* IsTargetLanguage without the comma: any tag that starts with svgbob.
IsTargetLanguagePrefix(language) == StartsWith(language, SVGBOB)

IsTargetLanguage(language) ==
    language = SVGBOB \/ StartsWith(language, SVGBOB \o <<COMMA>>)

(***************************************************************************)
(* remove_indent(line, indent)                                             *)
(***************************************************************************)
\* RemoveIndent as trim_start: every leading space and tab goes.
RemoveIndentTrimStart(line, indent) == From(line, LeadingRun(line, {SP, TAB}))

RECURSIVE RemoveIndent(_, _)
RemoveIndent(line, indent) ==
    IF /\ Len(line) > 0
       /\ Len(indent) > 0
       /\ line[1] = indent[1]
       /\ (indent[1] = SP \/ indent[1] = TAB)
    THEN RemoveIndent(Tail(line), Tail(indent))
    ELSE line

(***************************************************************************)
(* convert_diagram(art, output) appends one image reference to output.     *)
(* The rendering (crate svgbob) and base64::encode are external; the       *)
(* payload is kept symbolic: the art between two markers.                  *)
(***************************************************************************)
TokenOpen == "![](data:image/svg+xml;base64,"
TokenClose == ")"
Base64Svg(art) == <<"<svg">> \o art \o <<"svg>">>
ConvertDiagram(art, output) ==
    output \o <<TokenOpen>> \o Base64Svg(art) \o <<TokenClose>>


(***************************************************************************)
(* The state.  code_block is TextProcState; fragment, span, i, new_frag    *)
(* and passthrough are the parameters and locals of the step call in       *)
(* progress; pc is the position: "idle" between calls, "loop" at the head  *)
(* of the loop, "return" after the break, "finalized" once finalize has    *)
(* consumed the state.  out is the value the last step call returned and   *)
(* fin the value finalize returned.                                        *)
(*                                                                         *)
(* The other variables observe the run and are read by no operation:       *)
(* entry (code_block when the call began), last (the loop iteration just   *)
(* done), suppressed (capture was active before or after some line of     *)
(* this call: a capture-start line, a captured line or the close line of  *)
(* a capturing block),                                                     *)
(* diagrams (the arguments convert_diagram got in this call), faithful     *)
(* (the text this call owes its caller: each line passed on as it stands   *)
(* in the chunk, nothing for a suppressed line, the image reference for    *)
(* the close line of a capturing block), seen (what                        *)
(* kinds of line have been fed since new), openSpan (the span of the call  *)
(* that processed the opening line), and the caller: script (the chunks a  *)
(* scripted caller will feed), fed (how many it has fed) and outs (the     *)
(* outputs it has collected).                                              *)
(***************************************************************************)
VARIABLES code_block, pc, fragment, span, i, new_frag, passthrough, out, fin,
          entry, last, suppressed, diagrams, faithful, seen, openSpan,
          script, fed, outs

vars == <<code_block, pc, fragment, span, i, new_frag, passthrough, out, fin,
          entry, last, suppressed, diagrams, faithful, seen, openSpan,
          script, fed, outs>>

\* CodeBlock { fence, captured, start }; CapturedCodeBlock { content } is its
\* content string.
CodeBlock(fence, captured, start) ==
    [fence |-> fence, captured |-> captured, start |-> start]

Capturing(cb) == IsSome(cb) /\ IsSome(Unwrap(cb).captured)

\* TextProcOutput
Passthrough == [kind |-> "Passthrough", text |-> <<>>]
Empty == [kind |-> "Empty", text |-> <<>>]
Fragment(text) == [kind |-> "Fragment", text |-> text]

\* syn::Result<()>
Ok == [ok |-> TRUE, span |-> 0]
Err(at) == [ok |-> FALSE, span |-> at]

(***************************************************************************)
(* let mut passthrough = match self.code_block { .. }                      *)
(***************************************************************************)
\* EntryPassthrough that holds only with no block open at all.
EntryPassthroughNoBlock(cb) == cb = None

EntryPassthrough(cb) == ~Capturing(cb)

(***************************************************************************)
(* prepare_nonpassthrough_emission!(): the pair <<new_frag, passthrough>>  *)
(* after the macro.                                                        *)
(***************************************************************************)
\* PrepareNonpassthroughEmission that always starts from the empty string.
PrepareFromEmpty(nf, pt, frag, at) ==
    << IF nf = None THEN Some(<<>>) ELSE nf, FALSE >>

PrepareNonpassthroughEmission(nf, pt, frag, at) ==
    << IF nf = None THEN Some(IF pt THEN Slice(frag, 0, at) ELSE <<>>) ELSE nf,
       FALSE >>

(***************************************************************************)
(* The line the loop looks at: fragment[i..] up to its first line feed.    *)
(***************************************************************************)
NextBreak(frag, at) == FindBreak(From(frag, at))

LineAt(frag, at) ==
    LET rest == From(frag, at)
        nb == FindBreak(rest)
    IN  IF IsSome(nb) THEN Slice(rest, 0, Unwrap(nb)) ELSE rest

\* line == code_block.fence
\* IsCloseLine by the fence pattern: the line is a fence of the same indent and
\* character, at least as long, with nothing after it.
IsCloseLineByPattern(line, cb) ==
    /\ FenceMatches(line)
    /\ StartsWith(FenceGroup(line), cb.fence)
    /\ LanguageGroup(line) = <<>>

IsCloseLine(line, cb) == line = cb.fence

\* Pop left out: the content goes to convert_diagram as it is.
PopNothing(content) == content

\* captured.content.pop()
Pop(content) ==
    IF content = <<>> THEN content ELSE SubSeq(content, 1, Len(content) - 1)

\* CaptureLine with the line feed pushed before the line, not after it.
CaptureLineBreakFirst(content, line, fence) ==
    content \o <<LF>> \o RemoveIndent(line, fence)

\* CaptureLine without the push of the line feed.
CaptureLineNoBreak(content, line, fence) == content \o RemoveIndent(line, fence)

\* captured.content += remove_indent(line, &code_block.fence); push(LF)
CaptureLine(content, line, fence) == content \o RemoveIndent(line, fence) \o <<LF>>

\* The code block a matching line opens.
OpenBlock(line, at) ==
    CodeBlock(FenceGroup(line),
              IF IsTargetLanguage(LanguageGroup(line)) THEN Some(<<>>) ELSE None,
              at)

\* *new_frag += line; if next_break.is_some() { new_frag.push(LF) }
EmitLine(text, line, nb) == text \o line \o (IF IsSome(nb) THEN <<LF>> ELSE <<>>)

\* OpensBlock that also lets a fence inside an open block open a new one.
OpensBlockNested(cb, line) ==
    FenceMatches(line) /\ (IsSome(cb) => ~IsCloseLine(line, Unwrap(cb)))

\* The else branch of "if let Some(code_block)" and the match of FENCE_RE in it.
OpensBlock(cb, line) == cb = None /\ FenceMatches(line)

(***************************************************************************)
(* One iteration of the loop, from the find to the index update: the       *)
(* values of code_block, new_frag, passthrough and i after it, whether it  *)
(* ends in break, and the argument convert_diagram got, if it was called.  *)
(***************************************************************************)
LoopBody(cb, frag, sp, at, nf, pt) ==
    LET nb == NextBreak(frag, at)
        line == LineAt(frag, at)
        inBlock == IsSome(cb)
        block == Unwrap(cb)
        isClose == inBlock /\ IsCloseLine(line, block)
        wasCapturing == inBlock /\ IsSome(block.captured)
        convert == isClose /\ wasCapturing
        opens == OpensBlock(cb, line)
        passthrough_line ==
            IF inBlock THEN ~wasCapturing
            ELSE ~(opens /\ IsTargetLanguage(LanguageGroup(line)))
        \* lines 105-148
        cb1 == IF opens THEN Some(OpenBlock(line, sp))
               ELSE IF inBlock
               THEN IF isClose
                    THEN Some([block EXCEPT !.captured = None])
                    ELSE IF wasCapturing
                         THEN Some([block EXCEPT !.captured =
                                  Some(CaptureLine(Unwrap(block.captured), line, block.fence))])
                         ELSE cb
               ELSE cb
        art == IF convert THEN Pop(Unwrap(block.captured)) ELSE <<>>
        prep1 == IF convert THEN PrepareNonpassthroughEmission(nf, pt, frag, at)
                 ELSE <<nf, pt>>
        nf1 == IF convert THEN Some(ConvertDiagram(art, Unwrap(prep1[1]))) ELSE nf
        pt1 == prep1[2]
        \* lines 150-152
        cb2 == IF isClose THEN None ELSE cb1
        \* lines 154-165
        prep2 == IF passthrough_line
                 THEN << IF IsSome(nf1) THEN Some(EmitLine(Unwrap(nf1), line, nb)) ELSE nf1,
                         pt1 >>
                 ELSE IF pt1 THEN PrepareNonpassthroughEmission(nf1, pt1, frag, at)
                      ELSE <<nf1, pt1>>
    IN  [code_block |-> cb2,
         new_frag |-> prep2[1],
         passthrough |-> prep2[2],
         \* lines 167-171
         i |-> IF IsSome(nb) THEN at + Unwrap(nb) + 1 ELSE at,
         break |-> ~IsSome(nb),
         line |-> line,
         passthrough_line |-> passthrough_line,
         converted |-> IF convert THEN Some(art) ELSE None]

(***************************************************************************)
(* The value step returns, lines 174-180.                                  *)
(***************************************************************************)
\* StepResult without the Empty case: Passthrough whenever new_frag is None.
StepResultNoEmpty(nf, pt) ==
    IF IsSome(nf) THEN Fragment(Unwrap(nf)) ELSE Passthrough

StepResult(nf, pt) ==
    IF IsSome(nf) THEN Fragment(Unwrap(nf))
    ELSE IF pt THEN Passthrough
    ELSE Empty

(***************************************************************************)
(* The value finalize returns.                                             *)
(***************************************************************************)
\* FinalizeResult without the test of captured: any open block is an error.
FinalizeResultAnyOpen(cb) == IF IsSome(cb) THEN Err(Unwrap(cb).start) ELSE Ok

FinalizeResult(cb) ==
    IF IsSome(cb) /\ IsSome(Unwrap(cb).captured) THEN Err(Unwrap(cb).start) ELSE Ok

(***************************************************************************)
(* The whole of step as a function: the loop run to its break, then the    *)
(* return value.  The result holds the state after the call, the output    *)
(* and the arguments convert_diagram got, in order.                        *)
(***************************************************************************)
RECURSIVE RunLoop(_, _, _, _, _, _, _)
RunLoop(cb, frag, sp, at, nf, pt, arts) ==
    LET r == LoopBody(cb, frag, sp, at, nf, pt)
        arts1 == arts \o r.converted
    IN  IF r.break
        THEN [code_block |-> r.code_block,
              out |-> StepResult(r.new_frag, r.passthrough),
              diagrams |-> arts1]
        ELSE RunLoop(r.code_block, frag, sp, r.i, r.new_frag, r.passthrough, arts1)

RunStep(cb, frag, sp) == RunLoop(cb, frag, sp, 0, None, EntryPassthrough(cb), <<>>)

(***************************************************************************)
(* What the callers feed.  Lines are written with their parts: an indent,  *)
(* a run of a fence character, and the rest.                               *)
(***************************************************************************)
Indent(k) == Rep(SP, k)
Fence(c, n) == Rep(c, n)
X == <<"x">>
RUST == <<"r", "u", "s", "t">>

\* Lines that are not fences, fences without a tag, and tagged fences.
PlainLines ==
    { <<>>, X, Indent(1) \o X, Indent(2) \o X, Indent(3) \o X, <<TAB>> \o X,
      Fence(BT, 2), Indent(4) \o Fence(BT, 3), <<TAB>> \o Fence(BT, 3),
      X \o Fence(BT, 3) }

BareFences ==
    { Fence(BT, 3), Fence(TL, 3), Fence(BT, 4),
      Indent(1) \o Fence(BT, 3), Indent(2) \o Fence(BT, 3),
      Fence(BT, 3) \o <<SP>> }

TaggedFences ==
    { Indent(k) \o Fence(BT, 3) \o SVGBOB : k \in {0, 2, 3} } \cup
    { Fence(TL, 3) \o SVGBOB,
      Fence(BT, 4) \o SVGBOB,
      Fence(BT, 3) \o <<SP>> \o SVGBOB \o <<TAB>>,
      Fence(BT, 3) \o SVGBOB \o <<COMMA>> \o X,
      Fence(BT, 3) \o SVGBOB \o <<SP, COMMA>> \o X,
      Fence(BT, 3) \o SVGBOB \o X,
      Fence(BT, 3) \o <<"S", "v", "g", "b", "o", "b">>,
      Fence(BT, 3) \o RUST }

SingleLines == PlainLines \cup BareFences \cup TaggedFences

\* The lines of the chunks that hold several lines.
MultiLines == { X, Fence(BT, 3), Fence(BT, 3) \o SVGBOB }

RECURSIVE JoinLF(_)
JoinLF(ls) ==
    IF Len(ls) = 0 THEN <<>>
    ELSE IF Len(ls) = 1 THEN ls[1]
    ELSE ls[1] \o <<LF>> \o JoinLF(Tail(ls))

LineSeqs ==
    { <<l>> : l \in SingleLines } \cup
    UNION { [1..n -> MultiLines] : n \in 2..MaxChunkLines }

\* A chunk ends with a line feed or without.
Chunks ==
    { JoinLF(ls) : ls \in LineSeqs } \cup { JoinLF(ls) \o <<LF>> : ls \in LineSeqs }

\* The location after location sp.
NextSpan(sp) == (sp % MaxSpan) + 1

(***************************************************************************)
(* The scripted caller feeds one well-formed target block, each line       *)
(* ending with a line feed, cut into chunks at some of its line            *)
(* boundaries; or the five chunks of the documented scenario.              *)
(***************************************************************************)
BlockOpeners ==
    { [indent |-> 0, char |-> BT, run |-> 3, tag |-> SVGBOB],
      [indent |-> 2, char |-> BT, run |-> 3, tag |-> SVGBOB],
      [indent |-> 0, char |-> TL, run |-> 4, tag |-> SVGBOB \o <<COMMA>> \o X] }

BlockLines == { X, Indent(3) \o X, <<>>, Fence(BT, 4) }

OpenLine(o) == Indent(o.indent) \o Fence(o.char, o.run) \o o.tag
CloseLine(o) == Indent(o.indent) \o Fence(o.char, o.run)

BlockTexts ==
    { <<OpenLine(o)>> \o body \o <<CloseLine(o)>> :
        o \in BlockOpeners,
        body \in UNION { [1..n -> BlockLines] : n \in 0..MaxBlockLines } }

\* The lines from..to of a block as one chunk.
ChunkOf(ls, from, to) == Concat([k \in 1..(to - from + 1) |-> ls[from + k - 1] \o <<LF>>])

\* The chunks of ls cut after each line whose number is in cuts.
RECURSIVE CutFrom(_, _, _)
CutFrom(ls, from, cuts) ==
    IF from > Len(ls) THEN <<>>
    ELSE LET to == MinOf({c \in cuts \cup {Len(ls)} : c >= from})
         IN  <<ChunkOf(ls, from, to)>> \o CutFrom(ls, to + 1, cuts)

CutsOf(ls) == { CutFrom(ls, 1, cuts) : cuts \in SUBSET (1..(Len(ls) - 1)) }

PLUS == "+"
MINUS == "-"
BAR == "|"
Scenario ==
    << Fence(BT, 3) \o SVGBOB \o <<LF>>,
       <<PLUS, MINUS, PLUS, LF>>,
       <<BAR, SP, BAR, LF>>,
       <<PLUS, MINUS, PLUS, LF>>,
       Fence(BT, 3) \o <<LF>> >>

Scripts == UNION { CutsOf(ls) : ls \in BlockTexts } \cup {Scenario}

(***************************************************************************)
(* What the observers record, said in the words of the specification: a    *)
(* fence-like line is 0 to 3 spaces, then 3 or more of one fence           *)
(* character; its tag is what follows that run, without the white space    *)
(* around it; the target tag is svgbob, alone or followed by a comma.      *)
(***************************************************************************)
FenceLike(line) ==
    \E k \in 0..3 : \E c \in {BT, TL} :
        /\ Len(line) >= k + 3
        /\ \A j \in 1..k : line[j] = SP
        /\ \A j \in (k + 1)..(k + 3) : line[j] = c

TagOf(line) ==
    LET k == CHOOSE n \in 0..3 : (\A j \in 1..n : line[j] = SP) /\ line[n + 1] # SP
        c == line[k + 1]
        after == {j \in (k + 1)..Len(line) : line[j] # c}
        black == {j \in 1..Len(line) :
                      /\ after # {}
                      /\ j >= MinOf(after)
                      /\ line[j] \notin WhiteSpace}
    IN  IF black = {} THEN <<>> ELSE SubSeq(line, MinOf(black), MaxOf(black))

TargetTag(tag) ==
    \/ tag = SVGBOB
    \/ Len(tag) > Len(SVGBOB) /\ SubSeq(tag, 1, Len(SVGBOB) + 1) = SVGBOB \o <<COMMA>>

\* What one line owes the output of its call.  The line stands at offset at of
\* the chunk; cb0 and cb1 are the code block before and after it.
Owed(cb0, cb1, frag, at, line, converted) ==
    IF Capturing(cb0) /\ cb1 = None
    THEN ConvertDiagram(Unwrap(converted), <<>>)
    ELSE IF Capturing(cb0) \/ Capturing(cb1)
    THEN <<>>
    ELSE IF at + Len(line) < Len(frag) /\ frag[at + Len(line) + 1] = LF
    THEN line \o <<LF>>
    ELSE line

NoOutput == [kind |-> "None", text |-> <<>>]

(***************************************************************************)
(* TextProcState::new(), before any call.                                  *)
(***************************************************************************)
Fresh ==
    /\ code_block = None
    /\ pc = "idle"
    /\ fragment = <<>>
    /\ span = 0
    /\ i = 0
    /\ new_frag = None
    /\ passthrough = TRUE
    /\ out = NoOutput
    /\ fin = None
    /\ entry = None
    /\ last = None
    /\ suppressed = FALSE
    /\ diagrams = <<>>
    /\ faithful = <<>>
    /\ seen = [fenceLike |-> FALSE, target |-> FALSE]
    /\ openSpan = 0
    /\ fed = 0
    /\ outs = <<>>

Init == Fresh /\ script = <<>>

InitScripted == Fresh /\ script \in Scripts

(***************************************************************************)
(* step(fragment, span), lines 40-52: the call and the locals set before   *)
(* the loop.                                                               *)
(***************************************************************************)
Enter(chunk, sp) ==
    /\ pc = "idle"
    /\ pc' = "loop"
    /\ fragment' = chunk
    /\ span' = sp
    /\ i' = 0
    /\ new_frag' = None
    /\ passthrough' = EntryPassthrough(code_block)
    /\ out' = NoOutput
    /\ entry' = code_block
    /\ last' = None
    /\ suppressed' = FALSE
    /\ diagrams' = <<>>
    /\ faithful' = <<>>
    /\ UNCHANGED <<code_block, fin, seen, openSpan, script>>

\* The free-running caller: any chunk, at the next location, and no memory of
\* the outputs of earlier calls.
StepCall ==
    /\ Capturing(code_block) =>
           Len(Unwrap(Unwrap(code_block).captured)) <= MaxContent
    /\ \E chunk \in Chunks : Enter(chunk, NextSpan(span))
    /\ outs' = <<>>
    /\ fed' = fed

\* The scripted caller: the next chunk of the script, located by its number.
FeedNext ==
    /\ fed < Len(script)
    /\ Enter(script[fed + 1], fed + 1)
    /\ fed' = fed + 1
    /\ outs' = outs

(***************************************************************************)
(* One iteration of the loop of step, lines 92-172.                        *)
(***************************************************************************)
StepLine ==
    /\ pc = "loop"
    /\ LET r == LoopBody(code_block, fragment, span, i, new_frag, passthrough)
       IN  /\ code_block' = r.code_block
           /\ new_frag' = r.new_frag
           /\ passthrough' = r.passthrough
           /\ i' = r.i
           /\ pc' = IF r.break THEN "return" ELSE "loop"
           /\ last' = Some([line |-> r.line, before |-> code_block, at |-> i,
                            passthrough_line |-> r.passthrough_line])
           /\ suppressed' = (suppressed \/ Capturing(code_block)
                                         \/ Capturing(r.code_block))
           /\ diagrams' = diagrams \o r.converted
           /\ faithful' = faithful \o Owed(code_block, r.code_block, fragment, i,
                                            r.line, r.converted)
           /\ seen' = [fenceLike |-> seen.fenceLike \/ FenceLike(r.line),
                       target |-> seen.target \/
                                  (FenceLike(r.line) /\ TargetTag(TagOf(r.line)))]
           /\ openSpan' = IF r.code_block = None THEN 0
                          ELSE IF code_block = None THEN span
                          ELSE openSpan
    /\ UNCHANGED <<fragment, span, out, fin, entry, script, fed, outs>>

(***************************************************************************)
(* The return of step, lines 174-181.                                      *)
(***************************************************************************)
StepReturn ==
    /\ pc = "return"
    /\ pc' = "idle"
    /\ out' = StepResult(new_frag, passthrough)
    /\ outs' = Append(outs, [out |-> out', diagrams |-> diagrams])
    /\ UNCHANGED <<code_block, fragment, span, i, new_frag, passthrough, fin,
                   entry, last, suppressed, diagrams, faithful, seen, openSpan,
                   script, fed>>

(***************************************************************************)
(* finalize(self), lines 183-190.                                          *)
(***************************************************************************)
Finalize ==
    /\ pc = "idle"
    /\ pc' = "finalized"
    /\ fin' = Some(FinalizeResult(code_block))
    /\ UNCHANGED <<code_block, fragment, span, i, new_frag, passthrough, out,
                   entry, last, suppressed, diagrams, faithful, seen, openSpan,
                   script, fed, outs>>

Next == StepCall \/ StepLine \/ StepReturn \/ Finalize

Spec == Init /\ [][Next]_vars

NextScripted == FeedNext \/ StepLine \/ StepReturn \/ Finalize

SpecScripted == InitScripted /\ [][NextScripted]_vars

(***************************************************************************)
(* Reading the observers.                                                  *)
(***************************************************************************)
\* A loop iteration has been done in the call in progress or just returned.
LineDone == IsSome(last)
LastLine == Unwrap(last).line
\* code_block before that iteration.
Before == Unwrap(last).before
\* A step call has returned, and finalize has not been called since.
Returned == pc = "idle" /\ out # NoOutput

(***************************************************************************)
(* C1.  As long as no line fed so far is fence-like (0 to 3 spaces, then   *)
(* 3 or more backticks or 3 or more tildes), no code block is open, every  *)
(* step call has returned Passthrough, and finalize returns Ok.            *)
(***************************************************************************)
C1_NoFencePassthrough ==
    ~seen.fenceLike =>
        /\ code_block = None
        /\ out \in {NoOutput, Passthrough}
        /\ Returned => out = Passthrough
        /\ pc = "finalized" => fin = Some(Ok)

\* A fence indented by four spaces was fed, passed through, and finalize
\* succeeded.
C1_Witness ==
    /\ pc = "finalized"
    /\ ~seen.fenceLike
    /\ fragment = Indent(4) \o Fence(BT, 3)
    /\ out = Passthrough
    /\ fin = Some(Ok)

(***************************************************************************)
(* What a caller emits for a call: the chunk itself for Passthrough,       *)
(* nothing for Empty, the text of a Fragment.                              *)
(***************************************************************************)
Emitted(chunk, o) ==
    IF o.kind = "Passthrough" THEN chunk
    ELSE IF o.kind = "Fragment" THEN o.text
    ELSE <<>>

\* The text assembled from the calls made so far by the scripted caller, and
\* the diagram texts handed to convert_diagram in them.
Assembled == Concat([k \in 1..Len(outs) |-> Emitted(script[k], outs[k].out)])
AllDiagrams == Concat([k \in 1..Len(outs) |-> outs[k].diagrams])

ScriptDone == pc = "idle" /\ fed = Len(script) /\ Len(outs) = Len(script)

(***************************************************************************)
(* C2.  Once every chunk of a cut of a well-formed target block has been   *)
(* fed, the assembled output and the diagram text handed to                *)
(* convert_diagram are those of feeding the whole block as one chunk.      *)
(***************************************************************************)
C2_ChunkingIndependent ==
    ScriptDone =>
        LET text == Concat(script)
            whole == RunStep(None, text, 1)
        IN  /\ Assembled = Emitted(text, whole.out)
            /\ AllDiagrams = whole.diagrams

(***************************************************************************)
(* C3.  The five chunks of the scenario give Empty four times, then a      *)
(* Fragment that is exactly one image reference, and finalize returns Ok.  *)
(***************************************************************************)
IsOneToken(text) ==
    /\ Len(text) >= 2
    /\ text[1] = TokenOpen
    /\ text[Len(text)] = TokenClose
    /\ \A k \in 2..(Len(text) - 1) : text[k] \notin {TokenOpen, TokenClose}

C3_Scenario ==
    script = Scenario =>
        /\ \A k \in 1..Len(outs) :
               IF k <= 4 THEN outs[k].out = Empty
               ELSE outs[k].out.kind = "Fragment" /\ IsOneToken(outs[k].out.text)
        /\ pc = "finalized" /\ fed = Len(script) => fin = Some(Ok)

(***************************************************************************)
(* C4.  finalize returns an error if and only if a block is open with its  *)
(* capture active, and the error carries the span of the step call that    *)
(* processed the opening line; otherwise it returns Ok.                    *)
(***************************************************************************)
C4_FinalizeError ==
    pc = "finalized" =>
        IF Capturing(code_block)
        THEN fin = Some(Err(openSpan)) /\ openSpan \in 1..MaxSpan
        ELSE fin = Some(Ok)

\* An unclosed capturing block, opened in an earlier call than the last one:
\* the error names the opening call, not the last.
C4_Witness ==
    /\ pc = "finalized"
    /\ fin = Some(Err(openSpan))
    /\ span # openSpan
    /\ entry # None

(***************************************************************************)
(* C5.  While a block is open, capturing or not, a line closes it if and   *)
(* only if the line equals the stored fence text; and the fence text       *)
(* stored at the opening line is its leading spaces and fence run.         *)
(***************************************************************************)
\* The leading spaces and the maximal run of the fence character of a
\* fence-like line.
FenceTextOf(line) ==
    LET notSpace == {j \in 1..Len(line) : line[j] # SP}
        k == MinOf(notSpace) - 1
        notFence == {j \in (k + 1)..Len(line) : line[j] # line[k + 1]}
    IN  IF notFence = {} THEN line ELSE SubSeq(line, 1, MinOf(notFence) - 1)

C5_CloseExactMatch ==
    LineDone =>
        /\ IsSome(Before) =>
               ((code_block = None) <=> (LastLine = Unwrap(Before).fence))
        /\ IsSome(Before) /\ IsSome(code_block) =>
               Unwrap(code_block).fence = Unwrap(Before).fence
        /\ Before = None /\ IsSome(code_block) =>
               Unwrap(code_block).fence = FenceTextOf(LastLine)

\* A longer run of the fence character was fed to an open block, which stays
\* open.
C5_Witness ==
    /\ LineDone
    /\ IsSome(Before)
    /\ Unwrap(Before).fence = Fence(BT, 3)
    /\ LastLine = Fence(BT, 4)
    /\ IsSome(code_block)

(***************************************************************************)
(* C6.  As long as no fence-like line fed so far carries the target tag,   *)
(* capture is never active, convert_diagram is not invoked, every step     *)
(* call returns Passthrough, and finalize returns Ok, whether or not the   *)
(* blocks were closed.                                                     *)
(***************************************************************************)
C6_NonTargetTransparent ==
    ~seen.target =>
        /\ ~Capturing(code_block)
        /\ diagrams = <<>>
        /\ out \in {NoOutput, Passthrough}
        /\ Returned => out = Passthrough
        /\ pc = "finalized" => fin = Some(Ok)

\* A rust block was opened and never closed, a line was fed to it, and
\* finalize succeeded.
C6_Witness ==
    /\ pc = "finalized"
    /\ ~seen.target
    /\ IsSome(entry)
    /\ Unwrap(entry).fence = Fence(BT, 3)
    /\ IsSome(code_block)
    /\ fragment = Fence(BT, 3) \o RUST
    /\ out = Passthrough
    /\ fin = Some(Ok)

(***************************************************************************)
(* C7.  A line captured in a block whose opening fence had k leading       *)
(* spaces is appended to the content without its first min(k, s)           *)
(* characters, s being the number of its leading spaces, unchanged         *)
(* otherwise, and followed by one line feed.                               *)
(***************************************************************************)
LeadingSpaces(s) ==
    CHOOSE n \in 0..Len(s) :
        /\ \A j \in 1..n : s[j] = SP
        /\ n < Len(s) => s[n + 1] # SP

Least(a, b) == IF a <= b THEN a ELSE b

\* The line just done was captured: capture was active before and after it.
CapturedLine == LineDone /\ Capturing(Before) /\ Capturing(code_block)

C7_IndentStripped ==
    CapturedLine =>
        LET k == LeadingSpaces(Unwrap(Before).fence)
            cut == Least(k, LeadingSpaces(LastLine))
        IN  /\ k \in 0..3
            /\ Unwrap(Unwrap(code_block).captured) =
                   Unwrap(Unwrap(Before).captured)
                       \o SubSeq(LastLine, cut + 1, Len(LastLine)) \o <<LF>>

\* Under a fence indented by two spaces, a line indented by three was
\* captured with one space left.
C7_Witness ==
    /\ CapturedLine
    /\ Unwrap(Before).fence = Indent(2) \o Fence(BT, 3)
    /\ LastLine = Indent(3) \o X
    /\ Unwrap(Unwrap(code_block).captured) =
           Unwrap(Unwrap(Before).captured) \o Indent(1) \o X \o <<LF>>

(***************************************************************************)
(* C8.  A step call returns Passthrough if and only if no capture was in   *)
(* progress when it began and no line of the chunk was a capture-start     *)
(* line, a captured line or the close line of a capturing block.           *)
(***************************************************************************)
C8_PassthroughRule ==
    Returned => ((out = Passthrough) <=> (~Capturing(entry) /\ ~suppressed))

\* A call that began in an open block without capture and closed it returned
\* Passthrough.
C8_Witness ==
    /\ Returned
    /\ IsSome(entry)
    /\ code_block = None
    /\ out = Passthrough

(***************************************************************************)
(* C9.  step never returns a Fragment whose text is empty: a call that is  *)
(* not Passthrough and assembled no text returns Empty.                    *)
(***************************************************************************)
C9_EmptyNotFragment ==
    Returned => out # Fragment(<<>>)

(***************************************************************************)
(* C10.  When a line opens a block, capture becomes active if and only if  *)
(* its tag, the rest of the line after the fence run without the white     *)
(* space around it, is svgbob or starts with svgbob and a comma.           *)
(***************************************************************************)
\* The line just done opened a block.
OpenedBlock == LineDone /\ Before = None /\ IsSome(code_block)

C10_TargetTagRule ==
    OpenedBlock =>
        /\ FenceLike(LastLine)
        /\ Capturing(code_block) <=> TargetTag(TagOf(LastLine))
        /\ Capturing(code_block) => Unwrap(Unwrap(code_block).captured) = <<>>

\* A fence whose tag has white space on both sides opened a capturing block.
C10_Witness ==
    /\ OpenedBlock
    /\ LastLine = Fence(BT, 3) \o <<SP>> \o SVGBOB \o <<TAB>>
    /\ Capturing(code_block)

(***************************************************************************)
(* C11.  step is total and terminates: at the head of the loop the scan    *)
(* index is within the chunk; an iteration either ends the loop or moves   *)
(* the index forward, never past the end of the chunk; the call then       *)
(* returns Passthrough, Empty or a Fragment; and only finalize reports an  *)
(* error.  As claimed, the index grows on every iteration, the one that    *)
(* breaks included: C11_IndexGrowsEveryIteration.  As amended, it grows    *)
(* on every iteration but the one that breaks: C11_StepTotal.              *)
(***************************************************************************)
OutputKinds == {"Passthrough", "Empty", "Fragment"}

\* What holds of every step of step, the index apart.
StepSteps ==
    /\ pc = "loop" => i <= Len(fragment) /\ pc' \in {"loop", "return"}
    /\ pc = "return" => pc' = "idle" /\ out'.kind \in OutputKinds
    /\ fin' # fin => pc = "idle" /\ pc' = "finalized"
    /\ pc' # "finalized" => fin' = None

C11_IndexGrowsEveryIteration ==
    [][StepSteps /\ (pc = "loop" => i < i' /\ i' <= Len(fragment))]_vars

C11_StepTotal ==
    [][StepSteps /\ (pc = "loop" =>
                        \/ pc' = "return" /\ i' = i
                        \/ pc' = "loop" /\ i < i' /\ i' <= Len(fragment))]_vars

\* A chunk that is a run of two backticks and a line feed was scanned to its
\* end, the empty segment after the line feed included, and returned.
C11_Witness ==
    /\ Returned
    /\ fragment = Fence(BT, 2) \o <<LF>>
    /\ i = Len(fragment)
    /\ Unwrap(last).at = Len(fragment)
    /\ out = Passthrough

(***************************************************************************)
(* C12.  The text of a returned Fragment is, line by line of the chunk:    *)
(* each line that was not suppressed, with its line feed if it had one;    *)
(* nothing for a capture-start line or a captured line; the image          *)
(* reference for the close line of a capturing block.                      *)
(***************************************************************************)
C12_FragmentFaithful ==
    Returned /\ out.kind = "Fragment" => out.text = faithful

\* A call that began in a capture got its close line and one more line: the
\* Fragment is the image reference and that line with its line feed.
C12_Witness ==
    /\ Returned
    /\ Capturing(entry)
    /\ fragment = Fence(BT, 3) \o <<LF>> \o X \o <<LF>>
    /\ out.kind = "Fragment"
    /\ out.text = ConvertDiagram(diagrams[1], <<>>) \o X \o <<LF>>

(***************************************************************************)
(* C13.  While a block is open with capture active, after every line and   *)
(* between calls.  As claimed, the captured content ends with a line       *)
(* feed: C13_ContentEndsWithLF.  As amended, the captured content is empty *)
(* or ends with a line feed: C13_ContentEmptyOrEndsWithLF.                 *)
(***************************************************************************)
Content == Unwrap(Unwrap(code_block).captured)

EndsWithLF(s) == s # <<>> /\ s[Len(s)] = LF

C13_ContentEndsWithLF ==
    Capturing(code_block) => EndsWithLF(Content)

C13_ContentEmptyOrEndsWithLF ==
    Capturing(code_block) => Content = <<>> \/ EndsWithLF(Content)

\* Between two calls, a capture that holds one line.
C13_Witness ==
    /\ Returned
    /\ Capturing(entry)
    /\ Capturing(code_block)
    /\ Content = X \o <<LF>>

(***************************************************************************)
(* C14.  An open block stays as it is, with its fence text, its start      *)
(* location and its capture mode, over every step but the iteration on a   *)
(* line equal to its fence text, after which no block is open: no line     *)
(* inside a block opens another one, fence-like or not, and the close      *)
(* line does not open one either.                                          *)
(***************************************************************************)
C14_NoNestedFences ==
    [][IsSome(code_block) =>
          IF pc = "loop" /\ Unwrap(last').line = Unwrap(code_block).fence
          THEN code_block' = None
          ELSE /\ IsSome(code_block')
               /\ Unwrap(code_block').fence = Unwrap(code_block).fence
               /\ Unwrap(code_block').start = Unwrap(code_block).start
               /\ Capturing(code_block') <=> Capturing(code_block)]_vars

\* A target fence of backticks was fed to an open block of tildes without
\* capture, in a later call than the one that opened it: the block is as it
\* was.
C14_Witness ==
    /\ LineDone
    /\ IsSome(Before)
    /\ Unwrap(Before).fence = Fence(TL, 3)
    /\ ~Capturing(Before)
    /\ LastLine = Fence(BT, 3) \o SVGBOB
    /\ code_block = Before
    /\ Unwrap(code_block).start # span

(***************************************************************************)
(* C15.  convert_diagram is invoked in a loop iteration if and only if     *)
(* that iteration closes a capturing block, on the line equal to its fence *)
(* text; it is invoked once, with the content of the block without its     *)
(* trailing line feed (the empty string for an empty content); no other    *)
(* step invokes it, finalize included.                                     *)
(***************************************************************************)
StripLF(s) == IF EndsWithLF(s) THEN SubSeq(s, 1, Len(s) - 1) ELSE s

C15_EncoderProtocol ==
    [][IF pc = "loop"
       THEN IF Capturing(code_block) /\ code_block' = None
            THEN /\ Unwrap(last').line = Unwrap(code_block).fence
                 /\ diagrams' = Append(diagrams, StripLF(Content))
            ELSE diagrams' = diagrams
       ELSE /\ diagrams' \in {diagrams, <<>>}
            /\ pc' = "finalized" => diagrams' = diagrams]_vars

\* A capture of one line was closed in a later call than it was begun:
\* convert_diagram got that line once, and finalize added no invocation.
C15_Witness ==
    /\ pc = "finalized"
    /\ LineDone
    /\ Capturing(Before)
    /\ Unwrap(Unwrap(Before).captured) = X \o <<LF>>
    /\ code_block = None
    /\ fragment = Unwrap(Before).fence
    /\ diagrams = <<X>>

(***************************************************************************)
(* C16.  A step call that begins with capture active, on a chunk of N      *)
(* lines each ended by a line feed and none equal to the fence text,       *)
(* appends exactly N lines to the captured content.                        *)
(***************************************************************************)
CountLF(s) == Cardinality({j \in 1..Len(s) : s[j] = LF})

\* The lines of a chunk that ends with a line feed, the line feeds left out.
RECURSIVE TerminatedLines(_)
TerminatedLines(s) ==
    IF s = <<>> THEN <<>>
    ELSE LET brk == MinOf({j \in 1..Len(s) : s[j] = LF})
         IN  <<SubSeq(s, 1, brk - 1)>> \o TerminatedLines(SubSeq(s, brk + 1, Len(s)))

C16_TerminatedLinesAppended ==
    (/\ Returned
     /\ Capturing(entry)
     /\ EndsWithLF(fragment)
     /\ \A k \in 1..CountLF(fragment) :
            TerminatedLines(fragment)[k] # Unwrap(entry).fence)
        => /\ Capturing(code_block)
           /\ CountLF(Content) =
                  CountLF(Unwrap(Unwrap(entry).captured)) + CountLF(fragment)

(***************************************************************************)
(* C17.  With no block open, a line opens a block if and only if it is 0   *)
(* to 3 spaces, then 3 or more backticks or 3 or more tildes, then any     *)
(* text; a line with fewer than 3 fence characters, with 4 or more leading *)
(* spaces or with a leading tab opens none; the fence text stored is the   *)
(* leading spaces and the whole run of the fence character.                *)
(***************************************************************************)
\* The length of the run of one fence character after the leading spaces.
FenceChars(line) ==
    LET k == LeadingSpaces(line)
    IN  MaxOf({n \in 0..(Len(line) - k) :
                  \A j \in 1..n : /\ line[k + 1] \in {BT, TL}
                                  /\ line[k + j] = line[k + 1]})

C17_FenceOpenPattern ==
    LineDone /\ Before = None =>
        /\ IsSome(code_block) <=>
               LeadingSpaces(LastLine) <= 3 /\ FenceChars(LastLine) >= 3
        /\ (\/ FenceChars(LastLine) < 3
            \/ LeadingSpaces(LastLine) >= 4
            \/ LastLine # <<>> /\ LastLine[1] = TAB) => code_block = None
        /\ IsSome(code_block) =>
               Unwrap(code_block).fence =
                   SubSeq(LastLine, 1,
                          LeadingSpaces(LastLine) + FenceChars(LastLine))

\* A fence of three backticks under three spaces, tag behind it, opened a
\* block whose fence text is the spaces and the backticks.
C17_Witness ==
    /\ LineDone
    /\ Before = None
    /\ LastLine = Indent(3) \o Fence(BT, 3) \o SVGBOB
    /\ IsSome(code_block)
    /\ Unwrap(code_block).fence = Indent(3) \o Fence(BT, 3)

(***************************************************************************)
(* C18.  A step call that begins with capture active, on a chunk none of   *)
(* whose lines equals the fence text stored, returns Empty, invokes        *)
(* convert_diagram not at all, and leaves the block open and capturing     *)
(* with its fence text and start as they were, its content grown at the    *)
(* end only.                                                               *)
(***************************************************************************)
\* The segments the line feeds cut a chunk into.
Segments(chunk) == TerminatedLines(chunk \o <<LF>>)

C18_CaptureCallIsSilent ==
    (/\ Returned
     /\ Capturing(entry)
     /\ \A k \in 1..Len(Segments(fragment)) :
            Segments(fragment)[k] # Unwrap(entry).fence)
        => /\ out = Empty
           /\ diagrams = <<>>
           /\ Capturing(code_block)
           /\ Unwrap(code_block).fence = Unwrap(entry).fence
           /\ Unwrap(code_block).start = Unwrap(entry).start
           /\ StartsWith(Content, Unwrap(Unwrap(entry).captured))

\* Under a fence of four backticks a chunk that is a fence of three was
\* captured, and the call returned Empty.
C18_Witness ==
    /\ Returned
    /\ Capturing(entry)
    /\ Unwrap(entry).fence = Fence(BT, 4)
    /\ fragment = Fence(BT, 3)
    /\ out = Empty
    /\ Capturing(code_block)
    /\ Content = Unwrap(Unwrap(entry).captured) \o Fence(BT, 3) \o <<LF>>

(***************************************************************************)
(* C19.  When a capturing block is closed, the character content.pop()     *)
(* removes is a line feed; or the content is empty, which is the case when *)
(* the close line comes right after the capture-start line, nothing is     *)
(* removed and convert_diagram gets the empty string.                      *)
(***************************************************************************)
\* The line just done closed a capturing block.
ClosedCapture == LineDone /\ Capturing(Before) /\ code_block = None

C19_PopRemovesOnlyLF ==
    ClosedCapture =>
        LET content == Unwrap(Unwrap(Before).captured)
            art == diagrams[Len(diagrams)]
        IN  /\ diagrams # <<>>
            /\ IF content = <<>>
               THEN art = <<>>
               ELSE /\ content[Len(content)] = LF
                    /\ art \o <<LF>> = content

\* The close line came right after the capture-start line, in one chunk:
\* convert_diagram got the empty string.
C19_Witness ==
    /\ ClosedCapture
    /\ Unwrap(Unwrap(Before).captured) = <<>>
    /\ fragment = Fence(BT, 3) \o SVGBOB \o <<LF>> \o Fence(BT, 3)
    /\ diagrams = <<(<<>>)>>

=============================================================================
